---- MODULE Spec2Model ----
(***************************************************************************)
(* A model of snowflake_service.main.SnowflakeUtils: fetch_data with its   *)
(* on-disk result cache, export_data, drop_table and execute_sql, run      *)
(* against a warehouse session.                                            *)
(*                                                                         *)
(* Text (query inputs, SQL, identifiers, variable values) is a sequence of *)
(* one-character strings, so that strip, lower, startswith, endswith, the  *)
(* regular expression of format_variables, str.format and split are        *)
(* computed character by character as Python computes them.                *)
(***************************************************************************)
EXTENDS Integers, Sequences, FiniteSets, TLC

\* ------------------------------------------------------------------ text

\* The characters of the model.  A text is a sequence of characters, and a
\* character is the one-character string of its code point; a character a
\* string of this language cannot hold (the backtick, and every character
\* beyond U+00FF) is the string "U+" and the four hexadecimal digits of its
\* code point.  The model's characters are U+0001 to U+00FF, every white
\* space character of Python, what str.lower and str.upper make of these,
\* and U+0130, U+0131, U+0307, U+03A3, U+03C2, U+03C3 (the characters
\* str.lower treats by a rule of their own).  The tables below are Python's
\* (3.11) for these characters; a text with any other character is outside
\* the model.
ModelChars ==
    {"", "", "", "", "", "", "", "", "\t", "\n", "", "\f",
     "\r", "", "", "", "", "", "", "", "", "", "", "",
     "", "", "", "", "", "", "", " ", "!", "\"", "#", "$",
     "%", "&", "'", "(", ")", "*", "+", ",", "-", ".", "/", "0",
     "1", "2", "3", "4", "5", "6", "7", "8", "9", ":", ";", "<",
     "=", ">", "?", "@", "A", "B", "C", "D", "E", "F", "G", "H",
     "I", "J", "K", "L", "M", "N", "O", "P", "Q", "R", "S", "T",
     "U", "V", "W", "X", "Y", "Z", "[", "\\", "]", "^", "_", "U+0060",
     "a", "b", "c", "d", "e", "f", "g", "h", "i", "j", "k", "l",
     "m", "n", "o", "p", "q", "r", "s", "t", "u", "v", "w", "x",
     "y", "z", "{", "|", "}", "~", "", "", "", "", "", "",
     "", "", "", "", "", "", "", "", "", "", "", "",
     "", "", "", "", "", "", "", "", "", "", "", "",
     "", "", "", " ", "¡", "¢", "£", "¤", "¥", "¦", "§", "¨",
     "©", "ª", "«", "¬", "­", "®", "¯", "°", "±", "²", "³", "´",
     "µ", "¶", "·", "¸", "¹", "º", "»", "¼", "½", "¾", "¿", "À",
     "Á", "Â", "Ã", "Ä", "Å", "Æ", "Ç", "È", "É", "Ê", "Ë", "Ì",
     "Í", "Î", "Ï", "Ð", "Ñ", "Ò", "Ó", "Ô", "Õ", "Ö", "×", "Ø",
     "Ù", "Ú", "Û", "Ü", "Ý", "Þ", "ß", "à", "á", "â", "ã", "ä",
     "å", "æ", "ç", "è", "é", "ê", "ë", "ì", "í", "î", "ï", "ð",
     "ñ", "ò", "ó", "ô", "õ", "ö", "÷", "ø", "ù", "ú", "û", "ü",
     "ý", "þ", "ÿ", "U+0130", "U+0131", "U+0178", "U+0307", "U+039C", "U+03A3", "U+03BC", "U+03C2", "U+03C3",
     "U+1680", "U+2000", "U+2001", "U+2002", "U+2003", "U+2004", "U+2005", "U+2006", "U+2007", "U+2008", "U+2009", "U+200A",
     "U+2028", "U+2029", "U+202F", "U+205F", "U+3000"}

\* The upper-case letters whose lower case is one letter that str.upper
\* takes back to them, and these lower-case letters, in the same order:
\* A-Z, U+00C0-U+00DE without U+00D7, U+0178, U+039C, U+03A3.
UpperLetters ==
    <<"A","B","C","D","E","F","G","H","I","J","K","L","M","N","O","P","Q","R","S","T","U","V","W","X","Y","Z","À","Á","Â","Ã","Ä","Å","Æ","Ç","È","É","Ê","Ë","Ì","Í","Î","Ï","Ð","Ñ","Ò","Ó","Ô","Õ","Ö","Ø","Ù","Ú","Û","Ü","Ý","Þ","U+0178","U+039C","U+03A3">>

LowerLetters ==
    <<"a","b","c","d","e","f","g","h","i","j","k","l","m","n","o","p","q","r","s","t","u","v","w","x","y","z","à","á","â","ã","ä","å","æ","ç","è","é","ê","ë","ì","í","î","ï","ð","ñ","ò","ó","ô","õ","ö","ø","ù","ú","û","ü","ý","þ","ÿ","U+03BC","U+03C3">>

Digits == {"0","1","2","3","4","5","6","7","8","9"}

\* The characters str.isspace holds of, which are the ones str.strip()
\* removes: U+0009-U+000D, U+001C-U+0020, U+0085, U+00A0, U+1680,
\* U+2000-U+200A, U+2028, U+2029, U+202F, U+205F, U+3000.
SpaceChars ==
    {"\t", "\n", "", "\f", "\r", "", "", "", "", " ", "", " ",
     "U+1680", "U+2000", "U+2001", "U+2002", "U+2003", "U+2004", "U+2005", "U+2006", "U+2007", "U+2008", "U+2009", "U+200A",
     "U+2028", "U+2029", "U+202F", "U+205F", "U+3000"}

IsSpace(c) == c \in SpaceChars

\* What str.lower makes of the characters it changes, but for U+03A3
\* in final position (see Lower): U+0130 becomes two characters.
LowerMap ==
    [c \in {UpperLetters[i] : i \in 1..Len(UpperLetters)} |->
        <<LowerLetters[CHOOSE i \in 1..Len(UpperLetters) : UpperLetters[i] = c]>>]
    @@ ("U+0130" :> <<"i","U+0307">>)

\* What str.upper makes of the characters it changes: U+00DF becomes SS.
UpperMap ==
    [c \in {LowerLetters[i] : i \in 1..Len(LowerLetters)} |->
        <<UpperLetters[CHOOSE i \in 1..Len(LowerLetters) : LowerLetters[i] = c]>>]
    @@ ("µ" :> <<"U+039C">>) @@ ("ß" :> <<"S","S">>)
    @@ ("U+0131" :> <<"I">>) @@ ("U+03C2" :> <<"U+03A3">>)

\* The letters (str.isalpha): the characters that have another case, and
\* U+00AA and U+00BA.  Each of them is cased, and no other character of
\* the model is.
Letters == DOMAIN LowerMap \cup DOMAIN UpperMap \cup {"ª", "º"}

\* The characters the regular expression class \w matches in a str
\* pattern: the alphanumeric ones (str.isalnum: the letters, the digits,
\* U+00B2, U+00B3, U+00B9, U+00BC-U+00BE) and the underscore.
IsWordChar(c) ==
    \/ c \in Letters
    \/ c \in Digits
    \/ c \in {"²", "³", "¹", "¼", "½", "¾"}
    \/ c = "_"

\* The characters a case rule looks through (case-ignorable): ' . : ^ `
\* U+00A8, U+00AD, U+00AF, U+00B4, U+00B7, U+00B8, U+0307.
CaseIgnorable == {"'", ".", ":", "^", "U+0060", "¨", "­", "¯", "´", "·", "¸", "U+0307"}

\* U+03A3 at position i of s is in final position: the nearest character
\* before it that is not case-ignorable is a cased letter, and the
\* nearest one after it, if there is one, is not.
FinalSigma(s, i) ==
    LET before == {j \in 1..(i - 1) : s[j] \notin CaseIgnorable}
        after == {j \in (i + 1)..Len(s) : s[j] \notin CaseIgnorable}
    IN  /\ before # {}
        /\ s[CHOOSE j \in before : \A k \in before : k <= j] \in Letters
        /\ \/ after = {}
           \/ s[CHOOSE j \in after : \A k \in after : j <= k] \notin Letters

\* What str.lower and str.upper make of one character, as a text.
LowerChar(c) == IF c \in DOMAIN LowerMap THEN LowerMap[c] ELSE <<c>>

UpperChar(c) == IF c \in DOMAIN UpperMap THEN UpperMap[c] ELSE <<c>>

\* The texts of a sequence, joined.
RECURSIVE Concat(_)
Concat(texts) ==
    IF texts = << >> THEN << >> ELSE Head(texts) \o Concat(Tail(texts))

\* str.lower: U+03A3 in final position becomes U+03C2
Lower(s) ==
    Concat([i \in 1..Len(s) |->
               IF s[i] = "U+03A3" /\ FinalSigma(s, i)
               THEN <<"U+03C2">> ELSE LowerChar(s[i])])

\* str.upper
Upper(s) == Concat([i \in 1..Len(s) |-> UpperChar(s[i])])

\* str.startswith
StartsWith(s, p) == Len(p) <= Len(s) /\ SubSeq(s, 1, Len(p)) = p

\* str.endswith
EndsWith(s, p) == Len(p) <= Len(s) /\ SubSeq(s, Len(s) - Len(p) + 1, Len(s)) = p

\* s[n:], the text after its first n characters
Drop(s, n) == SubSeq(s, n + 1, Len(s))

\* str.strip: leading and trailing whitespace removed
Strip(s) ==
    LET keep == {i \in 1..Len(s) : ~IsSpace(s[i])}
    IN  IF keep = {} THEN << >>
        ELSE SubSeq(s, CHOOSE i \in keep : \A j \in keep : i <= j,
                       CHOOSE i \in keep : \A j \in keep : j <= i)

\* The position of the first occurrence of character c in s at or after
\* position i, or 0 when there is none.
IndexFrom(s, c, i) ==
    LET hits == {j \in i..Len(s) : s[j] = c}
    IN  IF hits = {} THEN 0 ELSE CHOOSE j \in hits : \A k \in hits : j <= k

\* The position of the last occurrence of character c in s, or 0.
LastIndex(s, c) ==
    LET hits == {j \in 1..Len(s) : s[j] = c}
    IN  IF hits = {} THEN 0 ELSE CHOOSE j \in hits : \A k \in hits : k <= j

\* The end of the run of \w characters of s that starts at position i
\* (i - 1 when s[i] is no \w character): the greedy match of \w+.
RECURSIVE WordEnd(_, _)
WordEnd(s, i) ==
    IF i <= Len(s) /\ IsWordChar(s[i]) THEN WordEnd(s, i + 1) ELSE i - 1

\* re.sub(r"\$(\w+)", r"{\1}", query) scanned from position i.
RECURSIVE SubVariables(_, _)
SubVariables(s, i) ==
    IF i > Len(s) THEN << >>
    ELSE IF s[i] = "$" /\ WordEnd(s, i + 1) > i
         THEN <<"{">> \o SubSeq(s, i + 1, WordEnd(s, i + 1)) \o <<"}">>
                  \o SubVariables(s, WordEnd(s, i + 1) + 1)
         ELSE <<s[i]>> \o SubVariables(s, i + 1)

\* SnowflakeUtils.format_variables
format_variables(query) == SubVariables(query, 1)

\* The key a replacement field names: the field up to the first of . [ ! :
FieldKey(field) ==
    LET stops == {j \in 1..Len(field) : field[j] \in {".", "[", "!", ":"}}
    IN  IF stops = {} THEN field
        ELSE SubSeq(field, 1, (CHOOSE j \in stops : \A k \in stops : j <= k) - 1)

IsDigits(s) == \A i \in 1..Len(s) : s[i] \in Digits

\* The value of a decimal digit.
DigitValue(c) ==
    CHOOSE n \in 0..9 : <<"0", "1", "2", "3", "4", "5", "6", "7", "8", "9">>[n + 1] = c

\* The digits of s without the leading zeros.
RECURSIVE StripZeros(_)
StripZeros(s) ==
    IF s # << >> /\ s[1] = "0" THEN StripZeros(SubSeq(s, 2, Len(s))) ELSE s

\* sys.maxsize (PY_SSIZE_T_MAX) of a 64-bit build, in decimal digits.
MaxSizeDigits == <<"9","2","2","3","3","7","2","0","3","6","8","5","4","7","7","5","8","0","7">>

\* The digits a key starts with: str.format reads them as a number, one
\* digit at a time, and stops at the first character that is no digit.
RECURSIVE LeadingDigits(_)
LeadingDigits(s) ==
    IF s # << >> /\ s[1] \in Digits
    THEN <<s[1]>> \o LeadingDigits(SubSeq(s, 2, Len(s)))
    ELSE << >>

\* The number the digits name is greater than sys.maxsize: str.format
\* refuses it while it reads them ("Too many decimal digits in format
\* string"), whatever follows them in the key.
ExceedsMaxSize(digits) ==
    LET d == StripZeros(digits)
    IN  \/ Len(d) > Len(MaxSizeDigits)
        \/ /\ Len(d) = Len(MaxSizeDigits)
           /\ \E i \in 1..Len(d) :
                 /\ DigitValue(d[i]) > DigitValue(MaxSizeDigits[i])
                 /\ \A j \in 1..(i - 1) : d[j] = MaxSizeDigits[j]

\* Where the field name of a replacement field that starts at position i
\* stops: the position of the first of { } [ : ! at or after i, or 0 when
\* the text ends first.
FieldStop(s, i) ==
    LET stops == {j \in i..Len(s) : s[j] \in {"{", "}", "[", ":", "!"}}
    IN  IF stops = {} THEN 0 ELSE CHOOSE j \in stops : \A k \in stops : j <= k

\* str.format(**variables) scanned from position i, the text produced so far
\* being out.  The result is [err, text]: err is "none", or the exception
\* Python raises: ValueError for a single brace, for a field the text ends
\* in, for a { inside a field name and for a key that starts with digits
\* whose number exceeds sys.maxsize; IndexError for any other key of
\* digits only ({} or {0}: no positional argument is passed); KeyError for
\* a key the map lacks.  Fields with an index, a conversion, a format specification
\* or an attribute lookup are outside the inputs of the model and are
\* reported as "Unmodelled".
RECURSIVE FormatFrom(_, _, _, _)
FormatFrom(s, i, out, variables) ==
    IF i > Len(s) THEN [err |-> "none", text |-> out]
    ELSE IF s[i] = "{"
    THEN IF i < Len(s) /\ s[i + 1] = "{"
         THEN FormatFrom(s, i + 2, out \o <<"{">>, variables)
         ELSE LET j == FieldStop(s, i + 1) IN
              IF j = 0 \/ s[j] = "{" THEN [err |-> "ValueError", text |-> << >>]
              ELSE IF s[j] # "}" THEN [err |-> "Unmodelled", text |-> << >>]
              ELSE LET field == SubSeq(s, i + 1, j - 1)
                       key == FieldKey(field)
                   IN  IF ExceedsMaxSize(LeadingDigits(key))
                       THEN [err |-> "ValueError", text |-> << >>]
                       ELSE IF IsDigits(key)
                       THEN [err |-> "IndexError", text |-> << >>]
                       ELSE IF key \notin DOMAIN variables
                       THEN [err |-> "KeyError", text |-> << >>]
                       ELSE IF key # field
                       THEN [err |-> "Unmodelled", text |-> << >>]
                       ELSE FormatFrom(s, j + 1, out \o variables[key], variables)
    ELSE IF s[i] = "}"
    THEN IF i < Len(s) /\ s[i + 1] = "}"
         THEN FormatFrom(s, i + 2, out \o <<"}">>, variables)
         ELSE [err |-> "ValueError", text |-> << >>]
    ELSE FormatFrom(s, i + 1, out \o <<s[i]>>, variables)

\* query.format(**variables)
Format(query, variables) == FormatFrom(query, 1, << >>, variables)

\* The two substitution steps of fetch_data and execute_sql:
\* query = self.format_variables(query); query = query.format(**variables)
\* A text with a character outside the model's is reported as "Unmodelled".
SubstituteText(query, variables) ==
    IF \E i \in 1..Len(query) : query[i] \notin ModelChars
    THEN [err |-> "Unmodelled", text |-> << >>]
    ELSE Format(format_variables(query), variables)

\* str.split(sep) for a one-character separator: the pieces between the
\* separators, the empty ones included.
RECURSIVE Split(_, _)
Split(s, sep) ==
    LET j == IndexFrom(s, sep, 1)
    IN  IF j = 0 THEN <<s>>
        ELSE <<SubSeq(s, 1, j - 1)>> \o Split(Drop(s, j), sep)

\* ----------------------------------------------------------- the inputs

\* The bounds of the model.
\* MaxClock: how many cache artifacts are written in one behaviour (each
\* write advances the file system's clock, which stamps the artifact).
MaxClock == 2

\* MaxRows: the most rows the warehouse table holds; a bulk write that would
\* exceed it is not taken.
MaxRows == 2

\* The SQL files on disk, by path: the program reads them and never writes
\* them.  sql/q.sql and sql/r.sql hold the text of the inline query
\* InlineAll; sql/d/q.sql is another file with the base name of sql/q.sql;
\* the last file is named after the MD5 digest of the text of InlineAll and
\* holds another query.  a.sql has a statement that ends in a vertical tab,
\* a piece that is a form feed and a newline, and a no-break space at its
\* end.
Files ==
    (<<"s","q","l","/","q",".","s","q","l">> :> <<"s","e","l","e","c","t"," ","*"," ","f","r","o","m"," ","S",".","T">>)
    @@ (<<"s","q","l","/","7","7","3","9","7","3","5","9","e","8","2","7","3","2","9","e","9","9","a","4","7","3","5","d","0","e","2","a","7","1","f","3",".","s","q","l">> :> <<"s","e","l","e","c","t"," ","1">>)
    @@ (<<"s","q","l","/","d","/","q",".","s","q","l">> :> <<"s","e","l","e","c","t"," ","$","n">>)
    @@ (<<"s","q","l","/","r",".","s","q","l">> :> <<"s","e","l","e","c","t"," ","*"," ","f","r","o","m"," ","S",".","T">>)
    @@ (<<"a",".","s","q","l">> :> <<"d","e","l","e","t","e"," ","f","r","o","m"," ","S",".","T","",";","\f","\n",";","d","r","o","p"," ","t","a","b","l","e"," ","S",".","T",";","s","e","l","e","c","t"," ","1"," ">>)
    @@ (<<"b",".","s","q","l">> :> <<"d","r","o","p"," ","t","a","b","l","e"," ","$","s",".","T",";","d","e","l","e","t","e"," ","f","r","o","m"," ","S",".","T">>)

InlineAll == <<"s","e","l","e","c","t"," ","*"," ","f","r","o","m"," ","S",".","T">>

\* InlineAll between white space: a form feed, spaces, a newline and a
\* no-break space.
InlinePadded == <<"\f"," ","s","e","l","e","c","t"," ","*"," ","f","r","o","m"," ","S",".","T"," ","\n"," ">>

InlineLower == <<"S","E","L","E","C","T"," ","*"," ","f","r","o","m"," ","s",".","t">>

InlineWith == <<"w","i","t","h"," ","x"," ","a","s"," ","(","s","e","l","e","c","t"," ","$","n",")"," ","s","e","l","e","c","t"," ","*"," ","f","r","o","m"," ","x">>

InlineDrop == <<"d","r","o","p"," ","t","a","b","l","e"," ","S",".","T">>

FileQ == <<"q",".","s","q","l">>

FileQPrefixed == <<"s","q","l","/","q",".","s","q","l">>

FileDQ == <<"d","/","q",".","s","q","l">>

FileR == <<"r",".","s","q","l">>

FileMissing == <<"n","o","f","i","l","e",".","s","q","l">>

\* The SQL file named after the digest of the text of InlineAll.
FileDigest == <<"7","7","3","9","7","3","5","9","e","8","2","7","3","2","9","e","9","9","a","4","7","3","5","d","0","e","2","a","7","1","f","3",".","s","q","l">>

\* What callers pass to fetch_data as query_input; the last three are other
\* spellings of sql/q.sql, the third of them leading through a file.
QueryInputs ==
    { InlineAll, InlinePadded, InlineLower, InlineWith, InlineDrop,
      FileQ, FileQPrefixed, FileDQ, FileR, FileMissing, FileDigest,
      <<".","/","q",".","s","q","l">>, <<"d","/",".",".","/","q",".","s","q","l">>, <<"q",".","s","q","l","/",".",".","/","r",".","s","q","l">> }

\* Inline queries whose text holds braces, or a $ token that is a number:
\* doubled braces beside a $ token; empty braces; a field in braces; a $
\* token of one digit; a $ token inside braces (format_variables makes it
\* a field in a field); a $ token whose number exceeds sys.maxsize; one
\* whose name starts with such a number; and one whose name ends in a
\* letter beyond ASCII (U+00E9).
SubstitutionInputs ==
    { <<"s","e","l","e","c","t"," ","{","{","a","}","}",","," ","$","n">>, <<"s","e","l","e","c","t"," ","{","}">>, <<"s","e","l","e","c","t"," ","{","n","}">>, <<"s","e","l","e","c","t"," ","$","1">>,
      <<"s","e","l","e","c","t"," ","{","x","$","n","}">>, <<"s","e","l","e","c","t"," ","$","9","2","2","3","3","7","2","0","3","6","8","5","4","7","7","5","8","0","8">>,
      <<"s","e","l","e","c","t"," ","$","9","2","2","3","3","7","2","0","3","6","8","5","4","7","7","5","8","0","8","n">>, <<"s","e","l","e","c","t"," ","$","n","é">> }

\* Every query input of the model.
ModelInputs == QueryInputs \cup SubstitutionInputs

\* The variables maps callers pass.
NoVariables == << >>

VariableMaps ==
    { NoVariables,
      (<<"n">> :> <<"1">>) @@ (<<"s">> :> <<"S">>),
      (<<"n">> :> <<"2">>) @@ (<<"s">> :> <<"S">>) @@ (<<"n","é">> :> <<"3">>) }

CoreMaps == {NoVariables, (<<"n">> :> <<"1">>) @@ (<<"s">> :> <<"S">>)}

\* What callers pass to execute_sql as file_path.
SqlPaths == { <<"a",".","s","q","l">>, <<"b",".","s","q","l">>, FileQPrefixed, FileMissing }

\* Other spellings of a.sql, a directory, and a path through a file.
SpelledSqlPaths ==
    { <<".","/","a",".","s","q","l">>, <<"s","q","l","/",".",".","/","a",".","s","q","l">>, <<"s","q","l">>, <<"a",".","s","q","l","/","b",".","s","q","l">>,
      <<"s","q","l","/","c","a","c","h","e","s","/",".",".","/",".",".","/","b",".","s","q","l">> }

\* A DataFrame: column names, their dtypes, and the rows (each a tuple of
\* values, one per column).
Frame(cols, dtypes, rows) == [cols |-> cols, dtypes |-> dtypes, rows |-> rows]

NoFrame == Frame(<< >>, << >>, << >>)

\* The DataFrames callers pass to export_data.  The first column of the
\* last one is named "I" and U+00DF, which str.upper makes ISS.
ExportFrames ==
    { Frame(<<<<"i","d">>>>, <<"int64">>, << >>),
      Frame(<<<<"i","d">>>>, <<"int64">>, <<<<1>>>>),
      Frame(<<<<"I","ß">>, <<"_","m">>>>, <<"int64", "object">>, <<<<1, 2>>, <<2, 1>>>>) }

CoreFrames == {df \in ExportFrames : Len(df.cols) = 1}

\* Frames of one row and two columns, the second of any dtype of the model
\* (Dtypes, defined with pandas_type_to_snowflake below).
TypedFrame(dtype) == Frame(<<<<"k">>, <<"v">>>>, <<"int64", dtype>>, <<<<1, 1>>>>)

\* What the driver returns for a query that reads no table of the model:
\* result sets as Snowflake hands them over, column names in upper case,
\* possibly with a metadata column.  The second one has a column named
\* "N" and U+00C9 (a quoted identifier).
DriverFrames ==
    { Frame(<<<<"N">>>>, <<"int64">>, <<<<1>>>>),
      Frame(<<<<"N","É">>, <<"_","S","E","Q">>>>, <<"int64", "int64">>, <<<<2, 7>>>>) }

\* The warehouse: database D, schema S, the table S.T the calls of the
\* model target, spelled in upper or in lower case by the caller, and a
\* table of schema S that was created under the quoted name "t" and so
\* keeps its name in lower case.
Databases == { <<"D">> }

Schemas == { <<"S">>, <<"s">> }

Tables == { <<"T">>, <<"t">> }

StoredSchema == <<"S">>

StoredTable == <<"T">>

QuotedTable == <<"t">>

\* ------------------------------------------------------ query resolution

CacheDirName == <<"s","q","l","/","c","a","c","h","e","s">>

\* hashlib.md5(text.encode('utf-8')).hexdigest() of the inline texts of the
\* model, as passed and stripped, and of two queries without variables:
\* the digests MD5 gives them.
Md5Digests ==
    (<<"s","e","l","e","c","t"," ","*"," ","f","r","o","m"," ","S",".","T">> :> <<"7","7","3","9","7","3","5","9","e","8","2","7","3","2","9","e","9","9","a","4","7","3","5","d","0","e","2","a","7","1","f","3">>)
    @@ (<<"\f"," ","s","e","l","e","c","t"," ","*"," ","f","r","o","m"," ","S",".","T"," ","\n"," ">> :> <<"a","b","a","5","4","3","3","5","f","a","f","8","4","8","4","c","c","a","9","f","1","2","1","d","5","7","6","6","2","0","5","b">>)
    @@ (<<"S","E","L","E","C","T"," ","*"," ","f","r","o","m"," ","s",".","t">> :> <<"2","4","a","a","a","2","d","d","2","0","c","6","0","6","5","9","b","f","3","e","a","6","d","f","0","8","a","0","8","3","1","7">>)
    @@ (<<"w","i","t","h"," ","x"," ","a","s"," ","(","s","e","l","e","c","t"," ","$","n",")"," ","s","e","l","e","c","t"," ","*"," ","f","r","o","m"," ","x">>
            :> <<"7","3","f","f","a","3","a","3","6","8","5","4","9","f","d","4","b","5","f","5","2","a","d","d","a","7","4","a","5","7","3","d">>)
    @@ (<<"s","e","l","e","c","t"," ","{","{","a","}","}",","," ","$","n">> :> <<"a","8","c","7","0","5","b","0","d","b","b","e","9","b","8","e","6","e","3","8","0","4","2","8","4","5","d","c","f","6","f","5">>)
    @@ (<<"s","e","l","e","c","t"," ","{","}">> :> <<"d","e","6","a","0","7","5","b","5","1","5","e","e","9","a","e","1","a","a","6","9","0","4","5","2","6","3","e","6","b","b","7">>)
    @@ (<<"s","e","l","e","c","t"," ","{","n","}">> :> <<"3","6","b","b","7","7","e","0","2","9","e","2","1","8","d","2","a","3","2","d","1","1","d","a","e","2","0","4","f","e","7","e">>)
    @@ (<<"s","e","l","e","c","t"," ","$","1">> :> <<"9","9","0","5","f","8","f","4","9","d","d","b","2","0","9","f","c","1","8","a","b","9","d","8","9","e","f","f","4","4","6","f">>)
    @@ (<<"s","e","l","e","c","t"," ","{","x","$","n","}">> :> <<"f","0","5","2","7","1","3","6","8","c","d","f","1","d","3","c","5","d","a","0","5","e","c","4","0","5","7","3","4","8","6","a">>)
    @@ (<<"s","e","l","e","c","t"," ","$","9","2","2","3","3","7","2","0","3","6","8","5","4","7","7","5","8","0","8">> :> <<"2","0","c","e","c","f","d","d","9","3","2","8","c","f","a","f","5","f","2","8","4","5","e","8","7","c","e","5","4","6","6","8">>)
    @@ (<<"s","e","l","e","c","t"," ","$","9","2","2","3","3","7","2","0","3","6","8","5","4","7","7","5","8","0","8","n">> :> <<"2","2","b","8","5","a","6","e","b","f","f","4","e","1","5","e","4","b","a","5","8","6","7","1","c","6","c","8","9","4","6","a">>)
    @@ (<<"s","e","l","e","c","t"," ","$","n","é">> :> <<"8","f","3","5","a","d","5","a","3","4","3","0","c","4","0","9","e","5","9","7","a","9","4","0","2","2","f","4","6","7","3","e">>)
    @@ (<<"s","e","l","e","c","t"," ","1">> :> <<"9","5","a","d","b","6","e","7","7","a","0","8","8","4","d","9","e","5","0","2","3","2","c","b","8","c","5","c","9","6","9","d">>)
    @@ (<<"w","i","t","h"," ","x"," ","a","s"," ","(","s","e","l","e","c","t"," ","1",")"," ","s","e","l","e","c","t"," ","*"," ","f","r","o","m"," ","x">>
            :> <<"2","6","7","1","b","3","5","6","1","e","a","d","e","5","9","5","7","d","9","a","0","e","a","8","5","f","0","d","4","8","c","7">>)

\* Line 187: the hexadecimal MD5 digest of a text.
Md5Hex(query) == Md5Digests[query]

\* Path(p).name: the text after the last slash.
BaseName(p) == Drop(p, LastIndex(p, "/"))

\* Path(p).with_suffix(".parquet").name for a path whose name ends in a
\* four-character suffix (.sql in any case); a name that is only ".sql" has
\* no suffix to replace.
ParquetName(p) ==
    LET name == BaseName(p)
    IN  IF Len(name) > 4
        THEN SubSeq(name, 1, Len(name) - 4) \o <<".","p","a","r","q","u","e","t">>
        ELSE name \o <<".","p","a","r","q","u","e","t">>

\* A variant of InlineCacheName: the digest is taken of the text as passed.
InlineCacheNameOfInput(query_input, query) == Md5Hex(query_input) \o <<".","p","a","r","q","u","e","t">>

\* Lines 187-188: the artifact of an inline query is named by the digest of
\* the stripped query text.
InlineCacheName(query_input, query) == Md5Hex(query) \o <<".","p","a","r","q","u","e","t">>

\* The file system's view of a path: its components.
Components(path) == Split(path, "/")

RECURSIVE JoinPath(_)
JoinPath(parts) ==
    IF Len(parts) = 1 THEN parts[1]
    ELSE parts[1] \o <<"/">> \o JoinPath(SubSeq(parts, 2, Len(parts)))

\* The SQL files and the directories that hold them, as components; the
\* working directory is << >>.
FileComponents == {Components(f) : f \in DOMAIN Files}

FileDirs ==
    UNION {{SubSeq(c, 1, n) : n \in 0..(Len(c) - 1)} : c \in FileComponents}

CacheDirComponents == Components(CacheDirName)

\* The directories on disk, given whether sql/caches has been made.
Dirs(made) ==
    IF made THEN FileDirs \cup {CacheDirComponents} ELSE FileDirs

\* The walk of the file system along the components of a path from
\* position i on, cur being the directory reached: empty components and .
\* stay, .. goes to the parent, a name goes to the directory or file of that
\* name.  The result is the file reached, or the error of the system call:
\* ENOENT (FileNotFoundError) for a name that is not there, ENOTDIR
\* (NotADirectoryError) for a file with components after it, EISDIR
\* (IsADirectoryError) for a path that ends at a directory.  Paths that
\* leave the working directory upwards and paths of cache artifacts are
\* outside the model ("Unmodelled").
RECURSIVE Walk(_, _, _, _)
Walk(parts, i, cur, dirs) ==
    IF i > Len(parts) THEN [err |-> "IsADirectoryError", file |-> << >>]
    ELSE IF parts[i] \in {<< >>, <<".">>} THEN Walk(parts, i + 1, cur, dirs)
    ELSE IF parts[i] = <<".", ".">>
    THEN IF cur = << >> THEN [err |-> "Unmodelled", file |-> << >>]
         ELSE Walk(parts, i + 1, SubSeq(cur, 1, Len(cur) - 1), dirs)
    ELSE IF Append(cur, parts[i]) \in dirs
    THEN Walk(parts, i + 1, Append(cur, parts[i]), dirs)
    ELSE IF Append(cur, parts[i]) \in FileComponents
    THEN IF i = Len(parts)
         THEN [err |-> "none", file |-> JoinPath(Append(cur, parts[i]))]
         ELSE [err |-> "NotADirectoryError", file |-> << >>]
    ELSE IF cur = CacheDirComponents /\ EndsWith(parts[i], <<".","p","a","r","q","u","e","t">>)
    THEN [err |-> "Unmodelled", file |-> << >>]
    ELSE [err |-> "FileNotFoundError", file |-> << >>]

\* The file a relative path names, as the system calls behind open,
\* Path.exists and Path.read_text find it.
ResolvePath(path, dirs) ==
    IF path = << >> THEN [err |-> "FileNotFoundError", file |-> << >>]
    ELSE IF path[1] = "/" THEN [err |-> "Unmodelled", file |-> << >>]
    ELSE Walk(Components(path), 1, << >>, dirs)

\* Lines 169-177 of fetch_data, f being what the path resolves to (the cache
\* directory was made at line 158): Path.exists is false for a path that
\* is not there or leads through a file; read_text raises on a directory.
ReadQueryFile(path, f) ==
    IF f.err = "none"
    THEN [err |-> "none", is_file |-> TRUE,
          query |-> Files[f.file], cache_file |-> ParquetName(path)]
    ELSE [err |-> IF f.err \in {"IsADirectoryError", "Unmodelled"} THEN f.err
                  ELSE "FileNotFoundError",
          is_file |-> TRUE, query |-> << >>, cache_file |-> << >>]

\* Lines 160-188 of fetch_data: the query text and the name of the cache
\* artifact (a file of the cache directory), or the exception raised.  An
\* input with a character outside the model's is reported as "Unmodelled".
ResolveQueryText(query_input) ==
    IF \E i \in 1..Len(query_input) : query_input[i] \notin ModelChars
    THEN [err |-> "Unmodelled", is_file |-> FALSE,
          query |-> << >>, cache_file |-> << >>]
    ELSE IF EndsWith(Lower(query_input), <<".","s","q","l">>)
    THEN LET path == IF StartsWith(query_input, <<"s","q","l","/">>)
                     THEN query_input
                     ELSE <<"s","q","l","/">> \o query_input
         IN  ReadQueryFile(path, ResolvePath(path, Dirs(TRUE)))
    ELSE LET query == Strip(query_input)
         IN  IF ~(StartsWith(Lower(query), <<"s","e","l","e","c","t">>)
                  \/ StartsWith(Lower(query), <<"w","i","t","h">>))
             THEN [err |-> "ValueError", is_file |-> FALSE,
                   query |-> << >>, cache_file |-> << >>]
             ELSE [err |-> "none", is_file |-> FALSE,
                   query |-> query,
                   cache_file |-> InlineCacheName(query_input, query)]

\* The resolution of every query input of the model, computed once.
Resolutions == [q \in ModelInputs |-> ResolveQueryText(q)]

ResolveQuery(query_input) == Resolutions[query_input]

\* The texts the calls of the model substitute variables into, and their
\* substitutions, computed once.
QueryTexts ==
    {r.query : r \in {x \in {Resolutions[q] : q \in ModelInputs} : x.err = "none"}}
    \cup {Files[p] : p \in DOMAIN Files}

Substitutions ==
    [t \in QueryTexts |-> [v \in VariableMaps |-> SubstituteText(t, v)]]

Substitute(query, variables) == Substitutions[query][variables]

\* Every artifact name a query input of the model resolves to.
CacheFiles ==
    {r.cache_file : r \in {x \in {Resolutions[q] : q \in ModelInputs} : x.err = "none"}}

\* SnowflakeUtils.convert_snowflake_response: the columns whose name starts
\* with an underscore are removed, the other names are lower-cased.
KeptColumns(cols) == {i \in 1..Len(cols) : ~StartsWith(cols[i], <<"_">>)}

RECURSIVE Pick(_, _, _)
\* The elements of sequence s at the positions of set keep, in order,
\* from position i on.
Pick(s, keep, i) ==
    IF i > Len(s) THEN << >>
    ELSE (IF i \in keep THEN <<s[i]>> ELSE << >>) \o Pick(s, keep, i + 1)

\* A variant of convert_snowflake_response: the names keep their case.
convert_keeping_case(response) ==
    Frame(Pick(response.cols, KeptColumns(response.cols), 1),
          Pick(response.dtypes, KeptColumns(response.cols), 1),
          [r \in 1..Len(response.rows) |->
              Pick(response.rows[r], KeptColumns(response.cols), 1)])

convert_snowflake_response(response) ==
    LET keep == KeptColumns(response.cols)
        cols == Pick(response.cols, keep, 1)
    IN  Frame([i \in 1..Len(cols) |-> Lower(cols[i])],
              Pick(response.dtypes, keep, 1),
              [r \in 1..Len(response.rows) |-> Pick(response.rows[r], keep, 1)])

\* SnowflakeUtils.pandas_type_to_snowflake.  A dtype is written as its name;
\* a categorical dtype, whose name is "category" whatever it holds, is
\* written with what its categories hold (the inferred type of the
\* categories index, whatever the dtype of that index), which is what
\* is_bool_dtype looks at.
\* The dtypes for which pd.api.types.is_integer_dtype, is_float_dtype,
\* is_datetime64_any_dtype and is_bool_dtype hold, among the dtypes of the
\* model.
IntegerDtypes ==
    {"int8", "int16", "int32", "int64", "uint8", "uint16", "uint32", "uint64",
     "Int8", "Int16", "Int32", "Int64", "UInt8", "UInt16", "UInt32", "UInt64"}

FloatDtypes == {"float16", "float32", "float64", "Float32", "Float64"}

DatetimeDtypes == {"datetime64[ns]", "datetime64[ns, UTC]"}

\* is_bool_dtype holds of a categorical dtype whose categories are booleans.
BoolDtypes == {"bool", "boolean", "category[boolean]"}

\* The dtypes none of the four tests recognises.
OtherDtypes ==
    {"object", "string", "category[string]", "category[integer]",
     "timedelta64[ns]", "complex128", "period[M]"}

\* The dtypes of the columns callers export.
Dtypes ==
    IntegerDtypes \cup FloatDtypes \cup DatetimeDtypes \cup BoolDtypes
        \cup OtherDtypes

\* A variant of pandas_type_to_snowflake: a dtype none of the tests
\* recognises has no Snowflake type.
pandas_type_or_nothing(dtype) ==
    IF dtype \in IntegerDtypes THEN "NUMBER"
    ELSE IF dtype \in FloatDtypes THEN "FLOAT"
    ELSE IF dtype \in DatetimeDtypes THEN "TIMESTAMP_NTZ"
    ELSE IF dtype \in BoolDtypes THEN "BOOLEAN"
    ELSE "none"

pandas_type_to_snowflake(dtype) ==
    IF dtype \in IntegerDtypes THEN "NUMBER"
    ELSE IF dtype \in FloatDtypes THEN "FLOAT"
    ELSE IF dtype \in DatetimeDtypes THEN "TIMESTAMP_NTZ"
    ELSE IF dtype \in BoolDtypes THEN "BOOLEAN"
    ELSE "STRING"

\* df.empty: no rows or no columns.
IsEmpty(df) == Len(df.rows) = 0 \/ Len(df.cols) = 0

\* -------------------------------------------------------- the warehouse

\* A table of the warehouse: its columns, their types and its rows.
NoTable == [exists |-> FALSE, cols |-> << >>, types |-> << >>, rows |-> << >>]

Table(cols, types, rows) ==
    [exists |-> TRUE, cols |-> cols, types |-> types, rows |-> rows]

TableIds == {<<StoredSchema, StoredTable>>, <<StoredSchema, QuotedTable>>}

TableAt(tables, id) == IF id \in DOMAIN tables THEN tables[id] ELSE NoTable

\* A statement submitted to the session.  The statements fetch_data and
\* execute_sql submit are text (kind "sql"); the statements export_data and
\* drop_table build from their f-string templates are kept as the template's
\* kind and the values interpolated into it, spelled as the code spells them.
Stmt(kind, schema, table, text, df) ==
    [kind |-> kind, schema |-> schema, table |-> table, text |-> text,
     cols |-> df.cols, types |-> df.dtypes, rows |-> df.rows]

SqlText(text) == Stmt("sql", << >>, << >>, text, NoFrame)

\* How the warehouse reads a text statement: the statement kinds of the
\* model over a qualified table name, any other query, any other statement.
ParseRef(ref) ==
    LET dot == IndexFrom(ref, ".", 1)
    IN  IF dot = 0 THEN <<StoredSchema, ref>>
        ELSE <<SubSeq(ref, 1, dot - 1), Drop(ref, dot)>>

ParseSqlText(text) ==
    LET low == Lower(text)
        on(kind, n) == Stmt(kind, ParseRef(Drop(text, n))[1],
                            ParseRef(Drop(text, n))[2], text, NoFrame)
    IN  IF StartsWith(low, <<"s","e","l","e","c","t"," ","*"," ","f","r","o","m"," ">>) THEN on("select_all", 14)
        ELSE IF StartsWith(low, <<"d","r","o","p"," ","t","a","b","l","e"," ">>) THEN on("drop", 11)
        ELSE IF StartsWith(low, <<"d","e","l","e","t","e"," ","f","r","o","m"," ">>) THEN on("delete", 12)
        ELSE IF StartsWith(low, <<"s","e","l","e","c","t">>) \/ StartsWith(low, <<"w","i","t","h">>)
        THEN Stmt("query", << >>, << >>, text, NoFrame)
        ELSE Stmt("other", << >>, << >>, text, NoFrame)

\* str.split(";") of the stripped text, each piece stripped, the empty
\* ones dropped: the commands execute_sql submits, in order.
RECURSIVE NonEmpty(_, _)
NonEmpty(pieces, i) ==
    IF i > Len(pieces) THEN << >>
    ELSE (IF Strip(pieces[i]) # << >> THEN <<Strip(pieces[i])>> ELSE << >>)
             \o NonEmpty(pieces, i + 1)

\* A variant of CommandsOfText: the empty pieces are kept.
RECURSIVE Stripped(_, _)
Stripped(pieces, i) ==
    IF i > Len(pieces) THEN << >>
    ELSE <<Strip(pieces[i])>> \o Stripped(pieces, i + 1)

CommandsKeepingEmpty(text) == Stripped(Split(Strip(text), ";"), 1)

CommandsOfText(text) == NonEmpty(Split(Strip(text), ";"), 1)

\* The texts the calls of the model can submit, their commands and how the
\* warehouse reads them, computed once.
SubmittedTexts ==
    {f.text : f \in {x \in {Substitutions[p[1]][p[2]] :
                                p \in QueryTexts \X VariableMaps} :
                        x.err = "none"}}

CommandLists == [t \in SubmittedTexts |-> CommandsOfText(t)]

CommandsOf(text) == CommandLists[text]

StatementTexts ==
    UNION {{t} \cup {CommandsOfText(t)[i] : i \in 1..Len(CommandsOfText(t))} :
             t \in SubmittedTexts}

ParsedTexts == [t \in StatementTexts |-> ParseSqlText(t)]

ParseSql(text) == ParsedTexts[text]

\* An unquoted identifier names the object of its upper-cased spelling.
ResolveId(schema, table) == <<Upper(schema), Upper(table)>>

\* The dtype the driver gives a fetched column of a warehouse type.
FetchedDtype(type) ==
    IF type = "NUMBER" THEN "int64"
    ELSE IF type = "FLOAT" THEN "float64"
    ELSE IF type = "TIMESTAMP_NTZ" THEN "datetime64[ns]"
    ELSE IF type = "BOOLEAN" THEN "bool"
    ELSE "object"

Done(tables, count, frame, success) ==
    [err |-> "none", tables |-> tables, count |-> count, frame |-> frame,
     success |-> success]

Failed(tables) ==
    [err |-> "ProgrammingError", tables |-> tables, count |-> 0,
     frame |-> NoFrame, success |-> FALSE]

\* The effect of one statement on the warehouse and what the session
\* returns for it.  answer is the result set of a query that reads no table
\* of the model; bulk_ok is whether a bulk write loads its rows.
\*  - the catalog query of export_data and drop_table compares the stored
\*    names, as strings, with the schema as the caller spelled it and with
\*    the table name the code upper-cased;
\*  - DROP TABLE, CREATE TABLE, DELETE and SELECT name the table by unquoted
\*    identifiers;
\*  - write_pandas quotes the table name (quote_identifiers defaults to
\*    True) and the column names, so both are matched as spelled, in the
\*    schema of the session.
ApplyParsed(tables, s, answer, bulk_ok) ==
    LET id == ResolveId(s.schema, s.table)
        t == TableAt(tables, ResolveId(s.schema, s.table))
    IN  CASE s.kind = "use_database" ->
               IF Upper(s.schema) \in Databases
               THEN Done(tables, 0, NoFrame, TRUE) ELSE Failed(tables)
          [] s.kind = "use_schema" ->
               IF Upper(s.schema) = StoredSchema
               THEN Done(tables, 0, NoFrame, TRUE) ELSE Failed(tables)
          [] s.kind = "catalog" ->
               Done(tables,
                    Cardinality({i \in DOMAIN tables :
                                   tables[i].exists /\ i = <<s.schema, s.table>>}),
                    NoFrame, TRUE)
          [] s.kind = "drop" ->
               IF t.exists
               THEN Done([tables EXCEPT ![id] = NoTable], 0, NoFrame, TRUE)
               ELSE Failed(tables)
          [] s.kind = "delete" ->
               IF t.exists
               THEN Done([tables EXCEPT ![id] = Table(t.cols, t.types, << >>)],
                         0, NoFrame, TRUE)
               ELSE Failed(tables)
          [] s.kind = "create" ->
               IF id \in DOMAIN tables /\ ~t.exists
               THEN Done([tables EXCEPT ![id] =
                             Table([i \in 1..Len(s.cols) |-> Upper(s.cols[i])],
                                   s.types, << >>)],
                         0, NoFrame, TRUE)
               ELSE Failed(tables)
          [] s.kind = "select_all" ->
               IF t.exists
               THEN Done(tables, Len(t.rows),
                         Frame(t.cols,
                               [i \in 1..Len(t.types) |-> FetchedDtype(t.types[i])],
                               t.rows),
                         TRUE)
               ELSE Failed(tables)
          [] s.kind = "query" -> Done(tables, Len(answer.rows), answer, TRUE)
          [] s.kind = "write_pandas" ->
               LET w == <<StoredSchema, s.table>>
                   wt == TableAt(tables, w)
               IN  IF ~wt.exists \/ wt.cols # s.cols THEN Failed(tables)
                   ELSE IF ~bulk_ok THEN Done(tables, 0, NoFrame, FALSE)
                   ELSE Done([tables EXCEPT ![w] =
                                 Table(wt.cols, wt.types, wt.rows \o s.rows)],
                             Len(s.rows), NoFrame, TRUE)
          [] OTHER -> Done(tables, 0, NoFrame, TRUE)

Apply(tables, stmt, answer, bulk_ok) ==
    ApplyParsed(tables, IF stmt.kind = "sql" THEN ParseSql(stmt.text) ELSE stmt,
                answer, bulk_ok)

\* ----------------------------------------------------------- the session

\* MaxFailAt: the session can be made to raise at its k-th statement of a
\* call, k in 1..MaxFailAt (an export with append=False submits up to nine).
MaxFailAt == 9

\* What the environment decides during one call: fail_at, the number of the
\* statement at which the session raises a driver error (0: at none);
\* fault, "fetch" when fetch_pandas_all raises, "cache_write" when
\* to_parquet raises before the artifact is written to (the frame cannot be
\* converted, the file cannot be opened: the artifact is left as it was),
\* "cache_write_removed" when to_parquet raises while the parquet writer
\* writes the artifact (the writer removes the file it was writing),
\* "bulk" when write_pandas returns success = False; answer, the result set
\* of a query that reads no table of the model.
Env(fail_at, fault, answer) ==
    [fail_at |-> fail_at, fault |-> fault, answer |-> answer]

AnyAnswer == CHOOSE a \in DriverFrames : Len(a.cols) = 1

FetchEnvs ==
    {Env(0, "none", a) : a \in DriverFrames}
    \cup {Env(1, "none", AnyAnswer), Env(0, "fetch", AnyAnswer),
          Env(0, "cache_write", AnyAnswer),
          Env(0, "cache_write_removed", AnyAnswer)}

NoFault == Env(0, "none", AnyAnswer)

BulkFails == Env(0, "bulk", AnyAnswer)

FailAt(k) == Env(k, "none", AnyAnswer)

WriteEnvs == {FailAt(k) : k \in 0..MaxFailAt} \cup {BulkFails}

\* The session during one call: the warehouse tables, the statements
\* submitted so far, the exception raised ("none": none yet) and what the
\* last statement returned.
Session(tables) ==
    [tables |-> tables, log |-> << >>, err |-> "none", count |-> 0,
     frame |-> NoFrame, success |-> TRUE]

\* The session after statement stmt had effect r.
Answered(ss, stmt, r) ==
    [tables |-> r.tables, log |-> Append(ss.log, stmt), err |-> r.err,
     count |-> r.count, frame |-> r.frame, success |-> r.success]

\* A variant of Submit: a statement the session raised at is submitted a
\* second time.
SubmitRetrying(ss, stmt, env) ==
    IF ss.err # "none" THEN ss
    ELSE IF Len(ss.log) + 1 = env.fail_at
    THEN Answered([ss EXCEPT !.log = Append(@, stmt)], stmt,
                  Apply(ss.tables, stmt, env.answer, env.fault # "bulk"))
    ELSE Answered(ss, stmt, Apply(ss.tables, stmt, env.answer, env.fault # "bulk"))

\* One cursor.execute (or write_pandas) call.  Once a statement has raised,
\* the exception propagates: the rest of the handler submits nothing.
Submit(ss, stmt, env) ==
    IF ss.err # "none" THEN ss
    ELSE IF Len(ss.log) + 1 = env.fail_at
    THEN [ss EXCEPT !.log = Append(@, stmt), !.err = "DriverError"]
    ELSE Answered(ss, stmt, Apply(ss.tables, stmt, env.answer, env.fault # "bulk"))

\* ------------------------------------------------------------- the calls

\* The state the calls act on: whether the cache directory exists, the
\* cache artifacts by name, the warehouse tables and the file system clock.
NoArtifact == [exists |-> FALSE, frame |-> NoFrame, mtime |-> 0]

Artifact(frame, mtime) == [exists |-> TRUE, frame |-> frame, mtime |-> mtime]

\* The record of a call: its arguments; for fetch_data whether the input
\* named a file, the query text and the artifact name it resolved to; the
\* exception raised ("none": the call returned); the result set the session
\* handed over and the DataFrame returned; the path taken; the statements
\* submitted to the session; how many cursors were opened and closed.
NoCall ==
    [op |-> "none", query_input |-> << >>, variables |-> NoVariables,
     cache |-> FALSE, df |-> NoFrame, database |-> << >>, schema |-> << >>,
     table |-> << >>, append |-> FALSE, file_path |-> << >>,
     is_file |-> FALSE, query |-> << >>, cache_file |-> << >>,
     raised |-> "none", response |-> NoFrame, returned |-> NoFrame,
     path |-> "none", log |-> << >>, opened |-> 0, closed |-> 0]

Outcome(w, call) == [world |-> w, call |-> call]

\* A variant of CacheHit: the artifact is never used.
CacheHitNever(w, cache, cache_file) == FALSE

\* A variant of CacheHit: an existing artifact is used whatever the flag.
CacheHitIgnoringFlag(w, cache, cache_file) == w.cache[cache_file].exists

\* Line 191: the cached artifact is used.
CacheHit(w, cache, cache_file) == cache /\ w.cache[cache_file].exists

\* Line 205, df.to_parquet(cache_file): the artifact is created or
\* overwritten, stamped with the time of the write.
StoreArtifact(w, cache_file, df) ==
    [w EXCEPT !.cache[cache_file] = Artifact(df, w.clock + 1),
              !.clock = w.clock + 1]

\* Line 205 when to_parquet raises while the parquet writer writes
\* cache_file: the writer, which was given the path, removes the file
\* before it lets the exception through, so that no artifact is left, the
\* one of an earlier call included.
RemoveArtifact(w, cache_file) ==
    [w EXCEPT !.cache[cache_file] = NoArtifact]

\* A variant of fetch_executed: the cursor is closed only when the call
\* returns.
fetch_executed_closing_on_success(w, call, cache_file, ss, env) ==
    IF ss.err # "none"
    THEN Outcome(w, [call EXCEPT !.log = ss.log, !.opened = 1,
                                 !.raised = ss.err, !.path = "execute_error"])
    ELSE IF env.fault = "fetch"
    THEN Outcome([w EXCEPT !.tables = ss.tables],
                 [call EXCEPT !.log = ss.log, !.opened = 1,
                              !.raised = "DriverError", !.path = "fetch_error"])
    ELSE IF env.fault = "cache_write"
    THEN Outcome([w EXCEPT !.tables = ss.tables],
                 [call EXCEPT !.log = ss.log, !.opened = 1,
                              !.response = ss.frame, !.raised = "OSError",
                              !.path = "cache_write_error"])
    ELSE IF env.fault = "cache_write_removed"
    THEN Outcome(RemoveArtifact([w EXCEPT !.tables = ss.tables], cache_file),
                 [call EXCEPT !.log = ss.log, !.opened = 1,
                              !.response = ss.frame, !.raised = "OSError",
                              !.path = "cache_write_error"])
    ELSE Outcome(StoreArtifact([w EXCEPT !.tables = ss.tables], cache_file,
                               convert_snowflake_response(ss.frame)),
                 [call EXCEPT !.log = ss.log, !.opened = 1, !.closed = 1,
                              !.response = ss.frame,
                              !.returned = convert_snowflake_response(ss.frame),
                              !.path = "executed"])

\* Lines 198-208 of fetch_data, the statement submitted: ss is the session
\* after cursor.execute(query).  The cursor is closed on every way out.
\* When to_parquet raises, the artifact is as it was or is gone.
fetch_executed(w, call, cache_file, ss, env) ==
    IF ss.err # "none"
    THEN Outcome(w, [call EXCEPT !.log = ss.log, !.opened = 1, !.closed = 1,
                                 !.raised = ss.err, !.path = "execute_error"])
    ELSE IF env.fault = "fetch"
    THEN Outcome([w EXCEPT !.tables = ss.tables],
                 [call EXCEPT !.log = ss.log, !.opened = 1, !.closed = 1,
                              !.raised = "DriverError", !.path = "fetch_error"])
    ELSE IF env.fault = "cache_write"
    THEN Outcome([w EXCEPT !.tables = ss.tables],
                 [call EXCEPT !.log = ss.log, !.opened = 1, !.closed = 1,
                              !.response = ss.frame, !.raised = "OSError",
                              !.path = "cache_write_error"])
    ELSE IF env.fault = "cache_write_removed"
    THEN Outcome(RemoveArtifact([w EXCEPT !.tables = ss.tables], cache_file),
                 [call EXCEPT !.log = ss.log, !.opened = 1, !.closed = 1,
                              !.response = ss.frame, !.raised = "OSError",
                              !.path = "cache_write_error"])
    ELSE Outcome(StoreArtifact([w EXCEPT !.tables = ss.tables], cache_file,
                               convert_snowflake_response(ss.frame)),
                 [call EXCEPT !.log = ss.log, !.opened = 1, !.closed = 1,
                              !.response = ss.frame,
                              !.returned = convert_snowflake_response(ss.frame),
                              !.path = "executed"])

\* Lines 194-199 of fetch_data: f is the query after substitution.
fetch_substituted(w, call, cache_file, f, env) ==
    IF f.err # "none"
    THEN Outcome(w, [call EXCEPT !.raised = f.err, !.path = "substitution_error"])
    ELSE fetch_executed(w, call, cache_file,
                        Submit(Session(w.tables), SqlText(f.text), env), env)

\* A variant of fetch_resolved: the variables are substituted before the
\* cache is looked at.
fetch_resolved_substituting_first(w, call, r, env) ==
    IF r.err # "none"
    THEN Outcome(w, [call EXCEPT !.is_file = r.is_file, !.raised = r.err,
                                 !.path = "invalid"])
    ELSE IF Substitute(r.query, call.variables).err # "none"
    THEN fetch_substituted(w, [call EXCEPT !.is_file = r.is_file,
                                           !.query = r.query,
                                           !.cache_file = r.cache_file],
                           r.cache_file, Substitute(r.query, call.variables), env)
    ELSE IF CacheHit(w, call.cache, r.cache_file)
    THEN Outcome(w, [call EXCEPT !.is_file = r.is_file, !.query = r.query,
                                 !.cache_file = r.cache_file,
                                 !.returned = w.cache[r.cache_file].frame,
                                 !.path = "hit"])
    ELSE fetch_substituted(w, [call EXCEPT !.is_file = r.is_file,
                                           !.query = r.query,
                                           !.cache_file = r.cache_file],
                           r.cache_file, Substitute(r.query, call.variables), env)

\* Lines 160-196 of fetch_data: r is the resolution of the query input.
fetch_resolved(w, call, r, env) ==
    IF r.err # "none"
    THEN Outcome(w, [call EXCEPT !.is_file = r.is_file, !.raised = r.err,
                                 !.path = "invalid"])
    ELSE IF CacheHit(w, call.cache, r.cache_file)
    THEN Outcome(w, [call EXCEPT !.is_file = r.is_file, !.query = r.query,
                                 !.cache_file = r.cache_file,
                                 !.returned = w.cache[r.cache_file].frame,
                                 !.path = "hit"])
    ELSE fetch_substituted(w, [call EXCEPT !.is_file = r.is_file,
                                           !.query = r.query,
                                           !.cache_file = r.cache_file],
                           r.cache_file, Substitute(r.query, call.variables), env)

\* SnowflakeUtils.fetch_data: the cache directory is created first.
fetch_data(w, query_input, variables, cache, env) ==
    fetch_resolved([w EXCEPT !.cacheDir = TRUE],
                   [NoCall EXCEPT !.op = "fetch_data", !.query_input = query_input,
                                  !.variables = variables, !.cache = cache],
                   ResolveQuery(query_input), env)

\* The cursors a call of export_data or drop_table has opened: one for each
\* USE statement and one for the catalog query (reused by DROP and CREATE).
CursorsOf(log) ==
    Cardinality({i \in 1..Len(log) :
                   log[i].kind \in {"use_database", "use_schema", "catalog"}})

\* The call of export_data or drop_table ends with session ss.
Ended(w, call, ss, path) ==
    Outcome([w EXCEPT !.tables = ss.tables],
            [call EXCEPT !.raised = ss.err, !.log = ss.log,
                         !.opened = CursorsOf(ss.log), !.path = path])

\* USE DATABASE, USE SCHEMA and the catalog query: lines 267-280 of
\* export_data and lines 342-354 of drop_table.  The catalog is asked for
\* the schema as the caller spelled it and for table.upper().
catalog_statements(ss, database, schema, table, env) ==
    Submit(Submit(Submit(ss, Stmt("use_database", database, << >>, << >>, NoFrame), env),
                  Stmt("use_schema", schema, << >>, << >>, NoFrame), env),
           Stmt("catalog", schema, Upper(table), << >>, NoFrame), env)

\* Lines 356-360 of drop_table: ss is the session after the catalog query.
drop_if_exists(ss, schema, table, env) ==
    IF ss.err = "none" /\ ss.count # 0
    THEN Submit(ss, Stmt("drop", schema, table, << >>, NoFrame), env)
    ELSE ss

\* The statements of drop_table.
drop_statements(ss, database, schema, table, env) ==
    drop_if_exists(catalog_statements(ss, database, schema, table, env),
                   schema, table, env)

DropPath(ss) ==
    IF ss.err # "none" THEN "error"
    ELSE IF ss.log[Len(ss.log)].kind = "drop" THEN "dropped"
    ELSE "absent"

\* SnowflakeUtils.drop_table
drop_table(w, database, schema, table, env) ==
    Ended(w,
          [NoCall EXCEPT !.op = "drop_table", !.database = database,
                         !.schema = schema, !.table = table],
          drop_statements(Session(w.tables), database, schema, table, env),
          DropPath(drop_statements(Session(w.tables), database, schema, table, env)))

\* Line 264 of export_data: the column names in upper case.
UpperColumns(df) ==
    Frame([i \in 1..Len(df.cols) |-> Upper(df.cols[i])], df.dtypes, df.rows)

\* Lines 284-289 of export_data: the column definitions of CREATE TABLE.
ColumnDefs(df) ==
    Frame(df.cols,
          [i \in 1..Len(df.dtypes) |-> pandas_type_to_snowflake(df.dtypes[i])],
          << >>)

\* Lines 283-299 of export_data: ss is the session after the catalog query.
create_if_absent(ss, df, schema, table, env) ==
    IF ss.err = "none" /\ ss.count = 0
    THEN Submit(ss, Stmt("create", schema, table, << >>, ColumnDefs(df)), env)
    ELSE ss

\* Lines 267-304 of export_data: df has its columns in upper case.
write_statements(ss, df, database, schema, table, env) ==
    Submit(create_if_absent(catalog_statements(ss, database, schema, table, env),
                            df, schema, table, env),
           Stmt("write_pandas", << >>, table, << >>, df), env)

\* Lines 306-309 of export_data: ss is the session after write_pandas.
WritePath(ss) ==
    IF ss.err # "none" THEN "error"
    ELSE IF ss.success THEN "written"
    ELSE "write_failed"

\* A variant of export_after_drop: an empty frame is written like any other.
export_after_drop_writing_empty(w, call, ss, env) ==
    IF ss.err # "none" THEN Ended(w, call, ss, "error")
    ELSE Ended(w, call,
               write_statements(ss, UpperColumns(call.df), call.database,
                                call.schema, call.table, env),
               WritePath(write_statements(ss, UpperColumns(call.df), call.database,
                                          call.schema, call.table, env)))

\* Lines 259-309 of export_data: ss is the session after the drop_table of
\* an export with append=False.
export_after_drop(w, call, ss, env) ==
    IF ss.err # "none" THEN Ended(w, call, ss, "error")
    ELSE IF IsEmpty(call.df) THEN Ended(w, call, ss, "empty")
    ELSE Ended(w, call,
               write_statements(ss, UpperColumns(call.df), call.database,
                                call.schema, call.table, env),
               WritePath(write_statements(ss, UpperColumns(call.df), call.database,
                                          call.schema, call.table, env)))

\* Lines 256-257 of export_data.
drop_unless_append(ss, database, schema, table, append, env) ==
    IF ~append THEN drop_statements(ss, database, schema, table, env) ELSE ss

\* SnowflakeUtils.export_data
export_data(w, df, database, schema, table, append, env) ==
    export_after_drop(w,
                      [NoCall EXCEPT !.op = "export_data", !.df = df,
                                     !.database = database, !.schema = schema,
                                     !.table = table, !.append = append],
                      drop_unless_append(Session(w.tables), database, schema,
                                         table, append, env),
                      env)

\* The loop of execute_sql, lines 383-387, from command i on; commands are
\* the non-empty stripped pieces of the split text.
RECURSIVE run_commands(_, _, _, _)
run_commands(ss, commands, i, env) ==
    IF i > Len(commands) THEN ss
    ELSE run_commands(Submit(ss, SqlText(commands[i]), env), commands, i + 1, env)

\* The call of execute_sql ends with session ss; the cursor is closed only
\* when no statement raised.
sql_executed(w, call, ss) ==
    Outcome([w EXCEPT !.tables = ss.tables],
            [call EXCEPT !.raised = ss.err, !.log = ss.log, !.opened = 1,
                         !.closed = IF ss.err = "none" THEN 1 ELSE 0,
                         !.path = IF ss.err = "none" THEN "executed"
                                  ELSE "execute_error"])

\* Lines 374-388 of execute_sql: f is the file's text after substitution.
sql_substituted(w, call, f, env) ==
    IF f.err # "none"
    THEN Outcome(w, [call EXCEPT !.raised = f.err, !.path = "substitution_error"])
    ELSE sql_executed(w, call,
                      run_commands(Session(w.tables), CommandsOf(f.text), 1, env))

\* Lines 370-372 of execute_sql, f being what file_path resolves to: open
\* raises the error of the system call.
sql_opened(w, call, f, env) ==
    IF f.err # "none"
    THEN Outcome(w, [call EXCEPT !.raised = f.err, !.path = "invalid"])
    ELSE sql_substituted(w, call, Substitute(Files[f.file], call.variables), env)

\* SnowflakeUtils.execute_sql
execute_sql(w, file_path, variables, env) ==
    sql_opened(w,
               [NoCall EXCEPT !.op = "execute_sql", !.file_path = file_path,
                              !.variables = variables],
               ResolvePath(file_path, Dirs(w.cacheDir)), env)

\* ----------------------------------------------------- the state machine

VARIABLES
    cacheDir,   \* whether the directory sql/caches exists
    cache,      \* the cache artifacts, by file name
    tables,     \* the warehouse tables
    clock,      \* the file system clock: the mtime of the last write
    last        \* the record of the last call

vars == <<cacheDir, cache, tables, clock, last>>

World == [cacheDir |-> cacheDir, cache |-> cache, tables |-> tables, clock |-> clock]

\* The tables the warehouse may hold when the client connects.
InitialTables ==
    { NoTable,
      Table(<<<<"I","D">>>>, <<"NUMBER">>, <<<<2>>>>) }

\* The state when the client is constructed: no artifact yet; quoted is
\* what the table "t" may hold.
InitWith(quoted) ==
    /\ cacheDir \in BOOLEAN
    /\ cache = [f \in CacheFiles |-> NoArtifact]
    /\ tables \in {t \in [TableIds -> InitialTables] :
                     t[<<StoredSchema, QuotedTable>>] \in quoted}
    /\ clock = 0
    /\ last = NoCall

\* A warehouse without the table "t".
Init == InitWith({NoTable})

\* A warehouse with or without the table "t".
InitQuoted == InitWith(InitialTables)

\* A call takes the state to its outcome.  Calls that would take the clock
\* or the table past the bounds of the model are not taken.
Becomes(o) ==
    /\ o.world.clock <= MaxClock
    /\ \A id \in TableIds : Len(o.world.tables[id].rows) <= MaxRows
    /\ cacheDir' = o.world.cacheDir
    /\ cache' = o.world.cache
    /\ tables' = o.world.tables
    /\ clock' = o.world.clock
    /\ last' = o.call

\* The calls, over the inputs given.
FetchDataOn(inputs, maps, envs) ==
    \E query_input \in inputs, variables \in maps, use_cache \in BOOLEAN,
       env \in envs :
        Becomes(fetch_data(World, query_input, variables, use_cache, env))

ExportDataOn(frames, schemas, names, envs) ==
    \E df \in frames, database \in Databases, schema \in schemas,
       table \in names, append \in BOOLEAN, env \in envs :
        Becomes(export_data(World, df, database, schema, table, append, env))

DropTableOn(schemas, names, envs) ==
    \E database \in Databases, schema \in schemas, table \in names,
       env \in envs :
        Becomes(drop_table(World, database, schema, table, env))

ExecuteSqlOn(paths, maps, envs) ==
    \E file_path \in paths, variables \in maps, env \in envs :
        Becomes(execute_sql(World, file_path, variables, env))

\* The client as a whole: every operation, over inputs that take each of
\* its paths.
Next ==
    \/ FetchDataOn({InlineAll, InlineWith, InlineDrop, FileMissing},
                   CoreMaps, FetchEnvs)
    \/ ExportDataOn(CoreFrames, {StoredSchema}, {StoredTable},
                    {NoFault, BulkFails})
    \/ DropTableOn({StoredSchema}, {StoredTable}, {NoFault, FailAt(3)})
    \/ ExecuteSqlOn(SqlPaths, CoreMaps, {NoFault, FailAt(2)})

Spec == Init /\ [][Next]_vars

\* The cached execution path alone: fetch_data on inline queries and SQL
\* files with and without variables, under every variables map and every
\* answer of the session.
NextCache ==
    FetchDataOn({InlineAll, InlineWith, InlineDrop, FileQ, FileDQ},
                VariableMaps, FetchEnvs)

SpecCache == Init /\ [][NextCache]_vars

\* The resolution of cache artifacts: fetch_data over every query input.
NextKeys == FetchDataOn(QueryInputs, CoreMaps, {NoFault})

SpecKeys == Init /\ [][NextKeys]_vars

\* Variable substitution on the executing path: fetch_data on inline
\* queries and a SQL file with $ tokens and braces, the session answering
\* or raising at the statement.
NextSubstitute ==
    FetchDataOn(SubstitutionInputs \cup {InlineAll, InlineWith, FileDQ},
                VariableMaps, {NoFault, FailAt(1)})

SpecSubstitute == Init /\ [][NextSubstitute]_vars

\* Every operation on one table, the session raising at any statement of
\* the call or the bulk write reporting failure.
NextFaults ==
    \/ FetchDataOn({InlineAll}, {NoVariables}, FetchEnvs)
    \/ ExportDataOn(CoreFrames, {StoredSchema}, {StoredTable}, WriteEnvs)
    \/ DropTableOn({StoredSchema}, {StoredTable}, WriteEnvs)
    \/ ExecuteSqlOn({<<"a",".","s","q","l">>, <<"b",".","s","q","l">>}, CoreMaps, WriteEnvs)

SpecFaults == Init /\ [][NextFaults]_vars

\* Table creation from frames of every dtype.
NextTypes ==
    \/ ExportDataOn({TypedFrame(d) : d \in Dtypes}, {StoredSchema},
                    {StoredTable}, {NoFault})
    \/ DropTableOn({StoredSchema}, {StoredTable}, {NoFault})

SpecTypes == Init /\ [][NextTypes]_vars

\* The table operations, the schema and the table spelled in upper and in
\* lower case, with the query that reads the table back.
NextWarehouse ==
    \/ ExportDataOn(ExportFrames, Schemas, Tables, {NoFault})
    \/ DropTableOn(Schemas, Tables, {NoFault})
    \/ FetchDataOn({InlineAll, InlineLower}, {NoVariables}, {NoFault})

SpecWarehouse == Init /\ [][NextWarehouse]_vars

\* The table operations under every spelling, over a warehouse that may
\* hold the table "t" next to S.T.
NextSpelling ==
    \/ ExportDataOn(CoreFrames, Schemas, Tables, {NoFault})
    \/ DropTableOn(Schemas, Tables, {NoFault})

SpecSpelling == InitQuoted /\ [][NextSpelling]_vars

\* Ad-hoc SQL execution, the session raising at any statement, with an
\* export that brings the table back.
NextSql ==
    \/ ExecuteSqlOn(SqlPaths \cup SpelledSqlPaths, VariableMaps, WriteEnvs)
    \/ ExportDataOn(ExportFrames, {StoredSchema}, {StoredTable}, {NoFault})

SpecSql == Init /\ [][NextSql]_vars

\* ------------------------------------------------------------ the claims
\* Each property below is about a step of the state machine: last' is the
\* record of the call the step makes, the unprimed variables are the state
\* before the call (and last the call before it), the primed ones the state
\* after it.

Target == <<StoredSchema, StoredTable>>

HasKind(log, kind) == \E i \in 1..Len(log) : log[i].kind = kind

\* C1: a fetch_data call with cache=True whose resolved cache artifact
\* already exists returns the content of that artifact and does nothing on
\* the session: it raises nothing (no substitution is attempted, so a
\* variable missing from the map is not an error), opens no cursor, submits
\* no statement, and leaves the artifacts and the warehouse as they were.
C1_CacheHitReturnsArtifact ==
    [][(/\ last'.op = "fetch_data"
        /\ last'.cache
        /\ last'.path # "invalid"
        /\ cache[last'.cache_file].exists)
       => /\ last'.raised = "none"
          /\ last'.returned = cache[last'.cache_file].frame
          /\ last'.log = << >>
          /\ last'.opened = 0
          /\ cache' = cache
          /\ tables' = tables
          /\ clock' = clock]_vars

\* A cache hit on a SQL file whose text references $n, with a variables
\* map that lacks n.
C1_Witness ==
    /\ last.op = "fetch_data"
    /\ last.path = "hit"
    /\ last.is_file
    /\ last.raised = "none"
    /\ SubstituteText(last.query, last.variables).err = "KeyError"
    /\ last.returned = cache[last.cache_file].frame

\* C2: two consecutive successful fetch_data calls with cache=False on the
\* same inline query each submit the query exactly once, and each writes
\* the artifact: after the first call the artifact holds the first result,
\* the second write is stamped strictly later, and after the second call
\* the artifact holds the cleaned result of the second execution.
C2_UncachedFetchExecutesAndOverwrites ==
    [][(/\ last.op = "fetch_data" /\ ~last.cache /\ ~last.is_file
        /\ last.path = "executed"
        /\ last'.op = "fetch_data" /\ ~last'.cache
        /\ last'.query_input = last.query_input
        /\ last'.raised = "none")
       => /\ Len(last.log) = 1
          /\ Len(last'.log) = 1
          /\ last'.path = "executed"
          /\ cache[last.cache_file].exists
          /\ cache[last.cache_file].frame = last.returned
          /\ last'.cache_file = last.cache_file
          /\ cache'[last'.cache_file].exists
          /\ cache'[last'.cache_file].mtime > cache[last.cache_file].mtime
          /\ last'.returned = convert_snowflake_response(last'.response)
          /\ cache'[last'.cache_file].frame = last'.returned]_vars

\* The state after the second of two writes of one artifact by uncached
\* inline fetches: the only artifact there is carries the second stamp.
C2_Witness ==
    /\ last.op = "fetch_data" /\ ~last.cache /\ ~last.is_file
    /\ last.path = "executed"
    /\ Len(last.log) = 1
    /\ cache[last.cache_file].mtime = 2
    /\ Cardinality({f \in CacheFiles : cache[f].exists}) = 1
    /\ cache[last.cache_file].frame = last.returned

\* C3 as stated: an export_data call whose frame has no rows, with append True or
\* False and whatever the state of the target table, submits nothing to
\* the session (no catalog query, no DROP, no CREATE TABLE, no bulk write)
\* and leaves the warehouse tables as they were.
C3_EmptyExportTouchesNothing ==
    [][(last'.op = "export_data" /\ IsEmpty(last'.df))
       => /\ last'.log = << >>
          /\ tables' = tables]_vars

\* The kinds of the statements of a log, in order.
Kinds(log) == [i \in 1..Len(log) |-> log[i].kind]

\* C3: an export_data call whose frame has no rows issues no CREATE TABLE
\* and no bulk write.  With append=True it submits nothing and leaves the
\* tables as they were.  With append=False it submits what drop_table
\* submits: the two USE statements, the catalog query, and DROP TABLE if
\* the catalog query found the table, which then no longer exists.
C3_EmptyExportOnlyDrops ==
    [][(last'.op = "export_data" /\ IsEmpty(last'.df))
       => /\ ~HasKind(last'.log, "create")
          /\ ~HasKind(last'.log, "write_pandas")
          /\ last'.append => (last'.log = << >> /\ tables' = tables)
          /\ (~last'.append /\ last'.raised = "none")
                => /\ Kinds(last'.log) \in
                         {<<"use_database", "use_schema", "catalog">>,
                          <<"use_database", "use_schema", "catalog", "drop">>}
                   /\ HasKind(last'.log, "drop") => ~tables'[Target].exists
                   /\ ~HasKind(last'.log, "drop") => tables' = tables]_vars

\* An export of a frame without rows, append=False, that dropped the
\* table it was given.
C3_Witness ==
    /\ last.op = "export_data" /\ IsEmpty(last.df) /\ ~last.append
    /\ last.raised = "none"
    /\ HasKind(last.log, "drop")
    /\ ~tables[Target].exists

\* C4: a fetch_data or execute_sql call that aborts on its input (inline
\* text that is not a select/with, a missing SQL file, a $variable absent
\* from the map) has submitted no statement and leaves the disk as it
\* was: the cache directory exists afterwards exactly if it existed
\* before, and every artifact is unchanged.
C4_ValidationErrorWritesNothing ==
    [][(/\ last'.op \in {"fetch_data", "execute_sql"}
        /\ last'.path \in {"invalid", "substitution_error"})
       => /\ last'.raised # "none"
          /\ last'.log = << >>
          /\ tables' = tables
          /\ cache' = cache
          /\ cacheDir' = cacheDir]_vars

\* C5: a drop_table call that returns normally has issued DROP TABLE
\* exactly if the target table existed before the call, for every
\* spelling of the schema and table arguments (unquoted identifiers name
\* the same table in either case); the table does not exist afterwards,
\* and a call on a table that does not exist changes no table.
C5_DropExactlyWhenTableExists ==
    [][(last'.op = "drop_table" /\ last'.raised = "none")
       => /\ HasKind(last'.log, "drop") <=> tables[Target].exists
          /\ ~tables'[Target].exists
          /\ (~tables[Target].exists => tables' = tables)]_vars

    /\ tables[Target].exists
    /\ Len(tables[Target].cols) = 2
    /\ Len(tables[Target].rows) = 2
    /\ Len(last.returned.rows) = 2
    /\ last.returned.cols = <<<<"i","s","s">>>>

\* C7: the cache artifact of a fetch_data call is resolved from the query
\* source alone: consecutive calls on the same source resolve to the same
\* artifact whatever their variables maps, and after a call has succeeded,
\* a call with cache=True on the same source with a different variables
\* map returns what the first call returned and submits nothing.
C7_CacheKeyIgnoresVariables ==
    [][(/\ last.op = "fetch_data" /\ last'.op = "fetch_data"
        /\ last'.query_input = last.query_input
        /\ last'.variables # last.variables)
       => /\ (last.path # "invalid" /\ last'.path # "invalid")
                => last'.cache_file = last.cache_file
          /\ (last.raised = "none" /\ last'.cache)
                => /\ last'.path = "hit"
                   /\ last'.raised = "none"
                   /\ last'.returned = last.returned
                   /\ last'.log = << >>
                   /\ tables' = tables
                   /\ cache' = cache]_vars

\* A hit on an inline query that references $n, by a call whose variables
\* map has no n: the rows are those fetched under another map.
C7_Witness ==
    /\ last.op = "fetch_data" /\ last.path = "hit"
    /\ ~last.is_file
    /\ last.variables = NoVariables
    /\ SubstituteText(last.query, last.variables).err = "KeyError"
    /\ Len(last.returned.rows) > 0

\* Path(p).stem for a path whose name ends in .sql (in any case): the name
\* without its suffix; a name that is only ".sql" has no suffix and is its
\* own stem.
Stem(p) ==
    IF Len(BaseName(p)) > 4
    THEN SubSeq(BaseName(p), 1, Len(BaseName(p)) - 4)
    ELSE BaseName(p)

\* C8 as stated: two query sources accepted by fetch_data resolve to the
\* same cache artifact exactly if their query texts are the same.
C8_KeyIsFunctionOfText ==
    [][(/\ last.op = "fetch_data" /\ last.path # "invalid"
        /\ last'.op = "fetch_data" /\ last'.path # "invalid")
       => (last'.query = last.query <=> last'.cache_file = last.cache_file)]_vars

\* What names the artifact of a query source: the digest of the stripped
\* text for an inline query, the name without directory and suffix for a
\* SQL file.
KeyOf(call) ==
    IF call.is_file THEN Stem(call.query_input)
    ELSE Md5Hex(Strip(call.query_input))

\* C8: two inline queries resolve to the same cache artifact exactly if
\* their stripped texts are the same; two SQL files resolve to the same
\* artifact exactly if their names without directory and suffix are the
\* same, whatever they contain; an inline query and a SQL file resolve to
\* the same artifact exactly if the name of the file, without directory
\* and suffix, is the digest of the stripped inline text, whatever the
\* file contains.
C8_KeyByTextOrFileName ==
    [][(/\ last.op = "fetch_data" /\ last.path # "invalid"
        /\ last'.op = "fetch_data" /\ last'.path # "invalid")
       => /\ (~last.is_file /\ ~last'.is_file)
                => (Strip(last'.query_input) = Strip(last.query_input)
                       <=> last'.cache_file = last.cache_file)
          /\ (last.is_file /\ last'.is_file)
                => (Stem(last'.query_input) = Stem(last.query_input)
                       <=> last'.cache_file = last.cache_file)
          /\ (last.is_file # last'.is_file)
                => (KeyOf(last') = KeyOf(last)
                       <=> last'.cache_file = last.cache_file)]_vars

\* A fetch of the SQL file named after the digest of an inline query
\* fetched before: the file holds another text, and the call returns from
\* the cache what the inline query stored, while the artifact of the SQL
\* file that holds the text of the inline query exists next to it.
C8_Witness ==
    /\ last.op = "fetch_data" /\ last.is_file /\ last.path = "hit"
    /\ last.query # Strip(InlineAll)
    /\ last.cache_file = InlineCacheName(InlineAll, Strip(InlineAll))
    /\ last.returned = cache[last.cache_file].frame
    /\ cache[ParquetName(FileQPrefixed)].exists
    /\ cache[ParquetName(FileQPrefixed)].mtime < cache[last.cache_file].mtime

\* C9: over any sequence of calls, the artifacts change only in a
\* fetch_data call that executed its query and fetched the result (it
\* reached the write of the artifact): the one artifact such a call changes
\* is the one it resolved to, which holds what the call returned when the
\* call returns; a fetch_data call that raises on its input, at its
\* statement or at fetching the result, a cache hit, and the other
\* operations leave every artifact as it was, and no call deletes an
\* artifact: one that exists keeps existing.
C9_ArtifactsChangeOnlyOnExecutedFetch ==
    [][/\ cache' # cache
          => /\ last'.op = "fetch_data"
             /\ last'.path \in {"executed", "cache_write_error"}
             /\ Len(last'.log) = 1
             /\ \A f \in CacheFiles :
                   cache'[f] # cache[f] => f = last'.cache_file
             /\ last'.raised = "none"
                   => /\ cache'[last'.cache_file].exists
                      /\ cache'[last'.cache_file].frame = last'.returned
       /\ last'.path \in {"invalid", "substitution_error", "execute_error",
                          "fetch_error"}
             => (last'.raised # "none" /\ cache' = cache)
       /\ last'.path = "hit" => cache' = cache
       /\ \A f \in CacheFiles : cache[f].exists => cache'[f].exists]_vars

\* The statements of the SQL files of the model, after substitution.
ExpectedCommands(file_path) ==
    IF file_path \in {<<"a",".","s","q","l">>, <<".","/","a",".","s","q","l">>, <<"s","q","l","/",".",".","/","a",".","s","q","l">>}
    THEN <<<<"d","e","l","e","t","e"," ","f","r","o","m"," ","S",".","T">>, <<"d","r","o","p"," ","t","a","b","l","e"," ","S",".","T">>, <<"s","e","l","e","c","t"," ","1">>>>
    ELSE IF file_path \in {<<"b",".","s","q","l">>, <<"s","q","l","/","c","a","c","h","e","s","/",".",".","/",".",".","/","b",".","s","q","l">>}
    THEN <<<<"d","r","o","p"," ","t","a","b","l","e"," ","S",".","T">>, <<"d","e","l","e","t","e"," ","f","r","o","m"," ","S",".","T">>>>
    ELSE <<<<"s","e","l","e","c","t"," ","*"," ","f","r","o","m"," ","S",".","T">>>>

\* The tables after the first n of the statements texts have been applied.
RECURSIVE Applied(_, _, _)
Applied(t, texts, n) ==
    IF n = 0 THEN t
    ELSE Apply(Applied(t, texts, n - 1), SqlText(texts[n]), AnyAnswer, TRUE).tables

\* C10: execute_sql submits the non-empty statements of the file, in file
\* order, each once, and no empty statement.  When it returns, all of them
\* have been submitted and applied; when statement k raises, statements
\* 1..k-1 stay applied, no later statement is submitted, and the call
\* raises.
C10_StatementsInOrderNoRollback ==
    [][(last'.op = "execute_sql"
        /\ last'.path \in {"executed", "execute_error"})
       => /\ Len(last'.log) <= Len(ExpectedCommands(last'.file_path))
          /\ \A i \in 1..Len(last'.log) :
                last'.log[i] = SqlText(ExpectedCommands(last'.file_path)[i])
          /\ last'.raised = "none"
                => /\ Len(last'.log) = Len(ExpectedCommands(last'.file_path))
                   /\ tables' = Applied(tables, ExpectedCommands(last'.file_path),
                                        Len(last'.log))
          /\ last'.raised # "none"
                => /\ Len(last'.log) >= 1
                   /\ tables' = Applied(tables, ExpectedCommands(last'.file_path),
                                        Len(last'.log) - 1)]_vars

\* A call on b.sql whose second statement raised: the table its first
\* statement dropped is gone.
C10_Witness ==
    /\ last.op = "execute_sql"
    /\ last.file_path = <<"b",".","s","q","l">>
    /\ last.raised # "none"
    /\ Len(last.log) = 2
    /\ ~tables[Target].exists

\* What the caller of an operation gets to see of a call: the exception
\* raised, if any, and the value returned (NoFrame stands for None).
Observed(call) == [raised |-> call.raised, returned |-> call.returned]

\* C11: an export_data call whose bulk write reports failure through its
\* return value does not raise, and what it hands to its caller differs
\* from what a call whose bulk write succeeded hands to its caller.
C11_FailedExportIsReported ==
    [][(/\ last.op = "export_data" /\ last.path = "written"
        /\ last'.op = "export_data" /\ last'.path = "write_failed")
       => /\ last'.raised = "none"
          /\ Observed(last') # Observed(last)]_vars

\* The statement C12 describes, not the one lines 195-196 compute: the text
\* with every $name token replaced by the value of name in the variables
\* map and nothing else changed, scanned from position i, out being the
\* text produced so far; a name the map lacks is a KeyError.
RECURSIVE ReplacedFrom(_, _, _, _)
ReplacedFrom(s, i, out, variables) ==
    IF i > Len(s) THEN [err |-> "none", text |-> out]
    ELSE IF s[i] = "$" /\ i < Len(s) /\ IsWordChar(s[i + 1])
    THEN IF SubSeq(s, i + 1, WordEnd(s, i + 1)) \notin DOMAIN variables
         THEN [err |-> "KeyError", text |-> << >>]
         ELSE ReplacedFrom(s, WordEnd(s, i + 1) + 1,
                           out \o variables[SubSeq(s, i + 1, WordEnd(s, i + 1))],
                           variables)
    ELSE ReplacedFrom(s, i + 1, out \o <<s[i]>>, variables)

Replaced(text, variables) == ReplacedFrom(text, 1, << >>, variables)

\* C12: a fetch_data call that does not return from the cache sends the
\* session the query text with every $name token replaced by the value of
\* name in the variables map and nothing else changed; when the text
\* references a name the map lacks, the call raises KeyError and sends no
\* statement.
C12_StatementIsTextWithTokensReplaced ==
    [][(/\ last'.op = "fetch_data"
        /\ last'.path \notin {"invalid", "hit"})
       => IF Replaced(last'.query, last'.variables).err = "KeyError"
          THEN last'.raised = "KeyError" /\ last'.log = << >>
          ELSE /\ Len(last'.log) = 1
               /\ last'.log[1]
                     = SqlText(Replaced(last'.query, last'.variables).text)]_vars

IsPrefix(a, b) == Len(a) <= Len(b) /\ a = SubSeq(b, 1, Len(a))

\* The statement sequences of drop_table and of export_data, by kind.
DropKinds == {<<"use_database", "use_schema", "catalog">>,
              <<"use_database", "use_schema", "catalog", "drop">>}

WriteKinds == {<<"use_database", "use_schema", "catalog", "write_pandas">>,
               <<"use_database", "use_schema", "catalog", "create", "write_pandas">>}

ExportKinds == WriteKinds \cup {d \o w : d \in DropKinds, w \in WriteKinds}

\* The tables after the first n statements of a log have each been applied
\* once, a bulk write loading its rows if bulk_ok.
RECURSIVE AppliedLog(_, _, _, _)
AppliedLog(t, log, n, bulk_ok) ==
    IF n = 0 THEN t
    ELSE Apply(AppliedLog(t, log, n - 1, bulk_ok), log[n], AnyAnswer, bulk_ok).tables

\* The paths on which the session raised at a statement.
SessionErrorPaths == {"execute_error", "error"}

\* C13: no operation retries.  The statements a call submits are a prefix
\* of the statement sequence of the operation, so none is submitted twice;
\* when the session raises, the statement it raised at is the last one
\* submitted, the statements before it stay applied once, and the call
\* raises the error of the session; a statement the warehouse refuses
\* always makes the call raise.
C13_NoRetry ==
    [][(last'.op # "none")
       => /\ last'.op = "fetch_data" => Len(last'.log) <= 1
          /\ last'.op = "drop_table"
                => \E k \in DropKinds : IsPrefix(Kinds(last'.log), k)
          /\ last'.op = "export_data"
                => \E k \in ExportKinds \cup DropKinds : IsPrefix(Kinds(last'.log), k)
          /\ last'.op = "execute_sql"
                => /\ Len(last'.log) <= Len(ExpectedCommands(last'.file_path))
                   /\ \A i \in 1..Len(last'.log) :
                         last'.log[i] = SqlText(ExpectedCommands(last'.file_path)[i])
          /\ last'.path \in SessionErrorPaths
                => /\ last'.log # << >>
                   /\ last'.raised \in {"DriverError", "ProgrammingError"}
                   /\ tables' = AppliedLog(tables, last'.log, Len(last'.log) - 1, TRUE)
          /\ last'.path \notin SessionErrorPaths
                => /\ tables' = AppliedLog(tables, last'.log, Len(last'.log),
                                           last'.path # "write_failed")
                   /\ \A i \in 1..Len(last'.log) :
                         Apply(AppliedLog(tables, last'.log, i - 1, TRUE),
                               last'.log[i], AnyAnswer, TRUE).err = "none"]_vars

\* An export with append=False at whose CREATE TABLE the session raised:
\* the table the call dropped is gone and nothing was submitted after.
C13_Witness ==
    /\ last.op = "export_data" /\ ~last.append
    /\ last.path = "error" /\ last.raised = "DriverError"
    /\ Kinds(last.log) = <<"use_database", "use_schema", "catalog", "drop",
                           "use_database", "use_schema", "catalog", "create">>
    /\ ~tables[Target].exists

\* The table the arguments of a call name, as unquoted identifiers.
TargetOf(call) == ResolveId(call.schema, call.table)

\* The position of the last catalog query of a log (0: none).
LastCatalog(log) ==
    IF HasKind(log, "catalog")
    THEN CHOOSE i \in 1..Len(log) :
            /\ log[i].kind = "catalog"
            /\ \A j \in (i + 1)..Len(log) : log[j].kind # "catalog"
    ELSE 0

\* C14: an export_data call with rows submits, in this order, the
\* drop_table sequence if append is false, USE DATABASE and USE SCHEMA,
\* the catalog query, CREATE TABLE exactly if the table is absent, and the
\* bulk write; CREATE TABLE is never submitted while the target table
\* exists and the bulk write never while it does not.
C14_ExportStatementOrder ==
    [][(last'.op = "export_data" /\ ~IsEmpty(last'.df))
       => /\ \E k \in (IF last'.append THEN WriteKinds
                       ELSE {d \o w : d \in DropKinds, w \in WriteKinds}) :
                IsPrefix(Kinds(last'.log), k)
          /\ \A i \in 1..Len(last'.log) :
                /\ last'.log[i].kind = "create"
                      => ~AppliedLog(tables, last'.log, i - 1, TRUE)[TargetOf(last')].exists
                /\ last'.log[i].kind = "write_pandas"
                      => AppliedLog(tables, last'.log, i - 1, TRUE)[TargetOf(last')].exists
          /\ HasKind(last'.log, "write_pandas")
                => (HasKind(last'.log, "create")
                      <=> ~AppliedLog(tables, last'.log, LastCatalog(last'.log),
                                      TRUE)[TargetOf(last')].exists)]_vars

\* C15: after an export_data call with rows that returned with its bulk
\* write done, the target table holds exactly the exported rows when
\* append is false, whatever it held before, and its previous rows
\* followed by the exported rows when append is true (the exported rows
\* alone when there was no table), under the exported column names in
\* upper case, for every spelling of the schema and table arguments.
\* The target table is read in the claim's favour: it is the table the
\* arguments name as unquoted identifiers or the table of the name as
\* spelled, whichever satisfies the statement.
C15_RowsAfterExport ==
    [][(/\ last'.op = "export_data" /\ ~IsEmpty(last'.df)
        /\ last'.path = "written")
       => /\ last'.raised = "none"
          /\ \E id \in {TargetOf(last'), <<Upper(last'.schema), last'.table>>} :
                /\ tables'[id].exists
                /\ tables'[id].cols = UpperColumns(last'.df).cols
                /\ tables'[id].rows
                      = (IF last'.append /\ tables[id].exists
                         THEN tables[id].rows ELSE << >>)
                        \o last'.df.rows
          /\ ~last'.append => HasKind(last'.log, "create")]_vars

\* C16: every cursor fetch_data opens is closed when the call ends.  A
\* call that executes its query opens one cursor and has closed it when it
\* returns, when the session raises at the statement, when fetching the
\* result raises and when writing the artifact raises; a cache hit and a
\* call that fails on its input open no cursor.
C16_FetchClosesItsCursor ==
    [][(last'.op = "fetch_data")
       => /\ last'.closed = last'.opened
          /\ last'.path \in {"executed", "execute_error", "fetch_error",
                             "cache_write_error"}
                => (last'.opened = 1 /\ Len(last'.log) = 1)
          /\ last'.path \in {"hit", "invalid", "substitution_error"}
                => (last'.opened = 0 /\ last'.log = << >>)
          /\ last'.path \in {"executed", "execute_error", "fetch_error",
                             "cache_write_error", "hit", "invalid",
                             "substitution_error"}]_vars

\* A call that raised while writing the artifact, its cursor closed.
C16_Witness ==
    /\ last.op = "fetch_data"
    /\ last.path = "cache_write_error"
    /\ last.raised = "OSError"
    /\ last.opened = 1
    /\ last.closed = 1

\* The Snowflake type of each dtype of the model, written out.  The
\* boolean dtypes are those pandas counts as boolean, a categorical dtype
\* of boolean categories among them.
ExpectedType(dtype) ==
    CASE dtype \in {"int8", "int16", "int32", "int64",
                    "uint8", "uint16", "uint32", "uint64",
                    "Int8", "Int16", "Int32", "Int64",
                    "UInt8", "UInt16", "UInt32", "UInt64"} -> "NUMBER"
      [] dtype \in {"float16", "float32", "float64", "Float32", "Float64"} -> "FLOAT"
      [] dtype \in {"datetime64[ns]", "datetime64[ns, UTC]"} -> "TIMESTAMP_NTZ"
      [] dtype \in {"bool", "boolean", "category[boolean]"} -> "BOOLEAN"
      [] OTHER -> "STRING"

SnowflakeTypes == {"NUMBER", "FLOAT", "TIMESTAMP_NTZ", "BOOLEAN", "STRING"}

\* C17: pandas_type_to_snowflake gives every dtype a Snowflake type:
\* NUMBER for the integer dtypes, FLOAT for the float dtypes, TIMESTAMP_NTZ
\* for the datetime dtypes, BOOLEAN for the boolean dtypes and STRING for
\* every other dtype; every CREATE TABLE export_data submits names one such
\* type for each column of the frame, and the table created has them.
C17_EveryDtypeHasAType ==
    [][(last'.op = "export_data")
       => /\ \A d \in Dtypes :
                /\ pandas_type_to_snowflake(d) = ExpectedType(d)
                /\ pandas_type_to_snowflake(d) \in SnowflakeTypes
          /\ \A i \in 1..Len(last'.log) :
                last'.log[i].kind = "create"
                   => /\ Len(last'.log[i].types) = Len(last'.df.cols)
                      /\ \A c \in 1..Len(last'.df.cols) :
                            last'.log[i].types[c] = ExpectedType(last'.df.dtypes[c])
          /\ (HasKind(last'.log, "create") /\ last'.raised = "none")
                => tables'[TargetOf(last')].types
                      = [c \in 1..Len(last'.df.cols) |->
                            ExpectedType(last'.df.dtypes[c])]]_vars

\* An export of a frame with a timedelta column created the table: the
\* column is a STRING column.
C17_Witness ==
    /\ last.op = "export_data" /\ last.path = "written"
    /\ HasKind(last.log, "create")
    /\ last.df.dtypes = <<"int64", "timedelta64[ns]">>
    /\ tables[Target].types = <<"NUMBER", "STRING">>

====
